---------------------------- MODULE Spec2Model ----------------------------
(***************************************************************************)
(* A model of ephemeris/shed_tools_methods.py.                             *)
(*                                                                         *)
(* Three independent entry points are modelled, each under its own         *)
(* specification over the same variables:                                  *)
(*   SpecFlatten  flatten_repo_info                                        *)
(*   SpecRepo     complete_repo_information / get_changeset_revisions      *)
(*   SpecVerify   verify_tool_keep_history                                 *)
(*                                                                         *)
(* Python values are tagged records: None, Str(s), List(seq), Bool(b).     *)
(* A Python dict is a function whose DOMAIN is its set of keys.  Dicts     *)
(* that the code shares by reference live in a heap (a sequence of dicts;  *)
(* the address of a dict is its index), so aliasing is observable.         *)
(***************************************************************************)
EXTENDS Integers, Sequences, FiniteSets, TLC

VARIABLES
    \* ---- flatten_repo_info
    heap,            \* address -> dict
    repositories,    \* the argument: a list of addresses
    input0,          \* the argument and the heap as they were at the call
    flattened_list,  \* the local / returned list of addresses
    repo_idx,        \* position of the outer for loop
    new_repo_info,   \* address held by the local new_repo_info
    rev_idx,         \* position of the inner for loop
    fpc,             \* control point
    \* ---- complete_repo_information / get_changeset_revisions
    entry,                    \* the function the caller invoked
    tool,                     \* argument of complete_repo_information
    require_tool_panel_info,  \* argument
    force_latest_revision,    \* argument
    repo,                     \* the dict being completed (`repo` / `repository`)
    repository0,              \* `repository` as it was when get_changeset_revisions was entered
    installable_revisions,    \* local of get_changeset_revisions (None until the catalog answered)
    catalog_requests,         \* requests sent to the tool shed, in order
    gcr_outcome,              \* how get_changeset_revisions ended
    outcome,                  \* how the invoked function ended
    rpc,                      \* control point
    \* ---- verify_tool_keep_history
    register_job_data,        \* TRUE when the callback argument is not None
    expect_failure,           \* testdef.expect_failure
    given_tests,              \* length of the tool_test_dicts argument, -1 when it is None
    test_index,               \* argument
    test_history_given,       \* TRUE when the test_history argument is not None
    tool_inputs,              \* local
    job_stdio,                \* local
    job_output_exceptions,    \* local
    tool_execution_exception, \* local
    expected_failure_occurred,\* local
    has_outputs,              \* truth of `data_list or data_collection_list`
    begin_time,               \* local (None until the try block is reached)
    pending,                  \* the exception propagating out of the try block, or None
    calls,                    \* the collaborators called so far, in order, with what each raised
    registered,               \* the records handed to register_job_data, in order
    voutcome,                 \* how verify_tool_keep_history ended
    vpc                       \* control point

fvars == <<heap, repositories, input0, flattened_list, repo_idx, new_repo_info, rev_idx, fpc>>

rvars == <<entry, tool, require_tool_panel_info, force_latest_revision, repo, repository0,
           installable_revisions, catalog_requests, gcr_outcome, outcome, rpc>>

vvars == <<register_job_data, expect_failure, given_tests, test_index, test_history_given,
           tool_inputs, job_stdio, job_output_exceptions, tool_execution_exception,
           expected_failure_occurred, has_outputs, begin_time, pending, calls, registered,
           voutcome, vpc>>

vars == <<fvars, rvars, vvars>>

(***************************************************************************)
(* Python values                                                           *)
(***************************************************************************)
None == [tag |-> "None"]
Str(s) == [tag |-> "str", v |-> s]
List(s) == [tag |-> "list", v |-> s]
Bool(b) == [tag |-> "bool", v |-> b]
Num(n) == [tag |-> "num", v |-> n]

\* Python truthiness of a value: None, "" and [] are false.
Truthy(x) ==
    CASE x.tag = "None" -> FALSE
      [] x.tag = "str" -> x.v # ""
      [] x.tag = "list" -> Len(x.v) > 0
      [] x.tag = "bool" -> x.v
      [] OTHER -> TRUE

\* dict.get(key, default)
Get(d, key, default) == IF key \in DOMAIN d THEN d[key] ELSE default

\* d[key] = value on a dict value
Put(d, key, value) == [k \in DOMAIN d \cup {key} |-> IF k = key THEN value ELSE d[k]]

EmptyDict == [k \in {} |-> None]

VALID_KEYS == {
    "name",
    "owner",
    "changeset_revision",
    "tool_panel_section_id",
    "tool_panel_section_label",
    "tool_shed_url",
    "install_repository_dependencies",
    "install_resolver_dependencies",
    "install_tool_dependencies"
}

(***************************************************************************)
(* Bounds                                                                  *)
(***************************************************************************)
MaxRepos == 2
MaxRevisions == 2
MaxInstallable == 2
MaxTests == 1
MaxOutputProblems == 2
MaxTime == 1

Revs == {"r1", "r2"}

\* Sequences over S of length 0..n
SeqsUpTo(S, n) == UNION {[1..k -> S] : k \in 0..n}

(***************************************************************************)
(* flatten_repo_info                                                       *)
(***************************************************************************)
\* The shapes of one element of the tools list: with or without a pinned
\* changeset_revision and a key outside VALID_KEYS, and with 'revisions'
\* absent, None, empty or a list of revisions (duplicates allowed).
BaseInfos == {
    [name |-> Str("bwa")],
    [name |-> Str("bwa"), changeset_revision |-> Str("r0"), comment |-> Str("note")]
}

RevisionsValues == {None} \cup {List(s) : s \in SeqsUpTo(Revs, MaxRevisions)}

RepoInfos == BaseInfos \cup {Put(b, "revisions", r) : b \in BaseInfos, r \in RevisionsValues}

\* lines 105-108: the copy of repo_info restricted to VALID_KEYS
FilterValidKeys(repo_info) == [k \in DOMAIN repo_info \cap VALID_KEYS |-> repo_info[k]]

\* Mutant: only None counts as "no revisions"; an empty list enters the
\* inner loop and contributes no entry.
RevisionsEmptyOnlyNone(revisions) == revisions.tag = "None"

\* line 111: `not revisions`
RevisionsEmpty(revisions) == ~Truthy(revisions)

\* Mutant: the same dictionary is reused for every revision (the aliasing
\* the comment on lines 115-117 warns about).
NewRevisionDictAliased(h, info, revision) ==
    [heap |-> [h EXCEPT ![info] = Put(h[info], "changeset_revision", Str(revision))],
     addr |-> info]

\* lines 118-119: a fresh dict, copied from new_repo_info, with the revision set
NewRevisionDict(h, info, revision) ==
    [heap |-> Append(h, Put(h[info], "changeset_revision", Str(revision))),
     addr |-> Len(h) + 1]

\* The variables of the other entry points while they are not in use.
IdleFlatten ==
    /\ heap = <<>>
    /\ repositories = <<>>
    /\ input0 = [list |-> <<>>, heap |-> <<>>]
    /\ flattened_list = <<>>
    /\ repo_idx = 0
    /\ new_repo_info = 0
    /\ rev_idx = 0
    /\ fpc = "idle"

Pending == [kind |-> "pending"]
Returned(value) == [kind |-> "return", value |-> value]
Exc(name) == [tag |-> "exception", v |-> name]
Raised(exception) == [kind |-> "raise", value |-> Exc(exception)]

IdleRepo ==
    /\ entry = "idle"
    /\ tool = EmptyDict
    /\ require_tool_panel_info = FALSE
    /\ force_latest_revision = FALSE
    /\ repo = EmptyDict
    /\ repository0 = EmptyDict
    /\ installable_revisions = None
    /\ catalog_requests = <<>>
    /\ gcr_outcome = Pending
    /\ outcome = Pending
    /\ rpc = "idle"

IdleVerify ==
    /\ register_job_data = FALSE
    /\ expect_failure = FALSE
    /\ given_tests = -1
    /\ test_index = 0
    /\ test_history_given = FALSE
    /\ tool_inputs = None
    /\ job_stdio = None
    /\ job_output_exceptions = None
    /\ tool_execution_exception = None
    /\ expected_failure_occurred = FALSE
    /\ has_outputs = FALSE
    /\ begin_time = None
    /\ pending = None
    /\ calls = <<>>
    /\ registered = <<>>
    /\ voutcome = Pending
    /\ vpc = "idle"

InitFlatten ==
    /\ IdleRepo
    /\ IdleVerify
    /\ \E n \in 0..MaxRepos : \E ds \in [1..n -> RepoInfos] :
          /\ heap = ds
          /\ repositories = [i \in 1..n |-> i]
          /\ input0 = [list |-> [i \in 1..n |-> i], heap |-> ds]
    /\ flattened_list = <<>>
    /\ repo_idx = 0
    /\ new_repo_info = 0
    /\ rev_idx = 0
    /\ fpc = "call"

\* line 103
FlattenStart ==
    /\ fpc = "call"
    /\ flattened_list' = <<>>
    /\ fpc' = "loop"
    /\ UNCHANGED <<heap, repositories, input0, repo_idx, new_repo_info, rev_idx>>
    /\ UNCHANGED <<rvars, vvars>>

\* lines 104-112 and 121-122: one iteration of the outer loop up to the point
\* where the inner loop starts
FlattenNextRepo ==
    /\ fpc = "loop"
    /\ repo_idx < Len(repositories)
    /\ LET repo_info == heap[repositories[repo_idx + 1]]
           addr == Len(heap) + 1
       IN /\ heap' = Append(heap, FilterValidKeys(repo_info))
          /\ new_repo_info' = addr
          /\ repo_idx' = repo_idx + 1
          /\ rev_idx' = 0
          /\ IF "revisions" \in DOMAIN repo_info
                THEN IF RevisionsEmpty(Get(repo_info, "revisions", List(<<>>)))
                        THEN /\ flattened_list' = Append(flattened_list, addr)
                             /\ fpc' = "loop"
                        ELSE /\ flattened_list' = flattened_list
                             /\ fpc' = "revisions"
                ELSE /\ flattened_list' = Append(flattened_list, addr)
                     /\ fpc' = "loop"
    /\ UNCHANGED <<repositories, input0>>
    /\ UNCHANGED <<rvars, vvars>>

\* lines 114-120: one iteration of the inner loop
FlattenNextRevision ==
    /\ fpc = "revisions"
    /\ LET revisions == heap[repositories[repo_idx]]["revisions"].v
       IN /\ rev_idx < Len(revisions)
          /\ LET made == NewRevisionDict(heap, new_repo_info, revisions[rev_idx + 1])
             IN /\ heap' = made.heap
                /\ flattened_list' = Append(flattened_list, made.addr)
          /\ rev_idx' = rev_idx + 1
    /\ UNCHANGED <<repositories, input0, repo_idx, new_repo_info, fpc>>
    /\ UNCHANGED <<rvars, vvars>>

\* line 114: the inner loop is exhausted, back to the outer loop
FlattenRevisionsDone ==
    /\ fpc = "revisions"
    /\ rev_idx = Len(heap[repositories[repo_idx]]["revisions"].v)
    /\ fpc' = "loop"
    /\ UNCHANGED <<heap, repositories, input0, flattened_list, repo_idx, new_repo_info, rev_idx>>
    /\ UNCHANGED <<rvars, vvars>>

\* line 123
FlattenReturn ==
    /\ fpc = "loop"
    /\ repo_idx = Len(repositories)
    /\ fpc' = "done"
    /\ UNCHANGED <<heap, repositories, input0, flattened_list, repo_idx, new_repo_info, rev_idx>>
    /\ UNCHANGED <<rvars, vvars>>

NextFlatten ==
    \/ FlattenStart
    \/ FlattenNextRepo
    \/ FlattenNextRevision
    \/ FlattenRevisionsDone
    \/ FlattenReturn

SpecFlatten == InitFlatten /\ [][NextFlatten]_vars


(***************************************************************************)
(* complete_repo_information, format_tool_shed_url, get_changeset_revisions*)
(***************************************************************************)
\* str.endswith / str.startswith / `in` on strings
EndsWith(s, suffix) ==
    Len(s) >= Len(suffix) /\ SubSeq(s, Len(s) - Len(suffix) + 1, Len(s)) = suffix
StartsWith(s, prefix) ==
    Len(s) >= Len(prefix) /\ SubSeq(s, 1, Len(prefix)) = prefix
Contains(s, sub) ==
    \E i \in 1..(Len(s) - Len(sub) + 1) : SubSeq(s, i, i + Len(sub) - 1) = sub

\* lines 59-65
format_tool_shed_url(tool_shed_url) ==
    LET slashed == IF ~EndsWith(tool_shed_url, "/") THEN tool_shed_url \o "/" ELSE tool_shed_url
    IN IF ~StartsWith(slashed, "http") THEN "https://" \o slashed ELSE slashed

\* The arguments a caller passes besides the tool itself.
default_toolshed_url == "https://toolshed.g2.bx.psu.edu/"
default_install_tool_dependencies == Bool(FALSE)
default_install_repository_dependencies == Bool(TRUE)
default_install_resolver_dependencies == Bool(TRUE)

\* A key that is absent, or present with one of the given values.
Opt(key, values) == {EmptyDict} \cup {key :> v : v \in values}

\* The tool entries a caller may pass: every key absent or present, the
\* panel fields and the revision also present as None.
Tools ==
    {a @@ b @@ c @@ d @@ e @@ f @@ g :
        a \in Opt("name", {Str("bwa"), Str("data_manager_fetch_genome")}),
        b \in Opt("owner", {Str("iuc")}),
        c \in Opt("tool_panel_section_id", {None, Str("mapping")}),
        d \in Opt("tool_panel_section_label", {None, Str("Mapping")}),
        e \in Opt("tool_shed_url", {Str("toolshed.g2.bx.psu.edu"), Str("http://testtoolshed.g2.bx.psu.edu/")}),
        f \in Opt("changeset_revision", {None, Str("r0")}),
        g \in Opt("install_tool_dependencies", {Bool(TRUE)})}

\* The repositories a caller may pass to get_changeset_revisions directly.
Repositories ==
    {[name |-> Str("bwa"), owner |-> Str("iuc"), tool_shed_url |-> Str("https://toolshed.g2.bx.psu.edu/")] @@ f :
        f \in Opt("changeset_revision", {None, Str("r0")})}

\* What the tool shed may answer: the ordered list of installable revisions,
\* empty when it does not know the repository.
CatalogResponses == SeqsUpTo(Revs, MaxInstallable)

InitRepo ==
    /\ IdleFlatten
    /\ IdleVerify
    /\ \/ /\ entry = "complete_repo_information"
          /\ tool \in Tools
          /\ require_tool_panel_info \in BOOLEAN
          /\ repo = EmptyDict
          /\ rpc = "complete"
       \/ /\ entry = "get_changeset_revisions"
          /\ tool = EmptyDict
          /\ require_tool_panel_info = FALSE
          /\ repo \in Repositories
          /\ rpc = "get_changeset_revisions"
    /\ force_latest_revision \in BOOLEAN
    /\ repository0 = EmptyDict
    /\ installable_revisions = None
    /\ catalog_requests = <<>>
    /\ gcr_outcome = Pending
    /\ outcome = Pending

\* Mutant: the data_manager exemption is forgotten.
PanelInfoMissingNoExemption(r, required) ==
    /\ required
    /\ r["tool_panel_section_id"] = None
    /\ r["tool_panel_section_label"] = None

\* lines 44-45: the condition under which the KeyError is raised
PanelInfoMissing(r, required) ==
    /\ required
    /\ r["tool_panel_section_id"] = None
    /\ r["tool_panel_section_label"] = None
    /\ ~Contains(Get(r, "name", None).v, "data_manager")

\* lines 38-49: the required fields, the panel check, the shed URL and the
\* revision as given
CompleteRepoInformationValidate ==
    /\ rpc = "complete"
    /\ IF "name" \notin DOMAIN tool \/ "owner" \notin DOMAIN tool
          THEN /\ outcome' = Raised("KeyError")
               /\ rpc' = "end"
               /\ UNCHANGED repo
          ELSE LET r4 == [name |-> tool["name"],
                          owner |-> tool["owner"],
                          tool_panel_section_id |-> Get(tool, "tool_panel_section_id", None),
                          tool_panel_section_label |-> Get(tool, "tool_panel_section_label", None)]
               IN IF PanelInfoMissing(r4, require_tool_panel_info)
                     THEN /\ outcome' = Raised("KeyError")
                          /\ rpc' = "end"
                          /\ repo' = r4
                     ELSE /\ repo' = Put(Put(r4, "tool_shed_url",
                                             Str(format_tool_shed_url(
                                                 Get(tool, "tool_shed_url", Str(default_toolshed_url)).v))),
                                         "changeset_revision", Get(tool, "changeset_revision", None))
                          /\ rpc' = "get_changeset_revisions"
                          /\ UNCHANGED outcome
    /\ UNCHANGED <<entry, tool, require_tool_panel_info, force_latest_revision, repository0,
                   installable_revisions, catalog_requests, gcr_outcome>>
    /\ UNCHANGED <<fvars, vvars>>

\* Mutant: a pinned revision no longer prevents the request.
NeedsLookupAlways(repository, force) == TRUE

\* line 76
NeedsLookup(repository, force) ==
    Get(repository, "changeset_revision", None) = None \/ force

\* Mutant: the oldest installable revision is taken.
LatestRevisionFirst(revisions) == revisions[1]

\* line 83: installable_revisions[-1]
LatestRevision(revisions) == revisions[Len(revisions)]

\* Where control goes when get_changeset_revisions ends.
AfterGetChangesetRevisions(how) ==
    /\ gcr_outcome' = how
    /\ IF entry = "complete_repo_information" /\ how.kind = "return"
          THEN rpc' = "finish" /\ UNCHANGED outcome
          ELSE rpc' = "end" /\ outcome' = how

\* lines 76 and 85: the revision is pinned and not forced, nothing is requested
GetChangesetRevisionsPinned ==
    /\ rpc = "get_changeset_revisions"
    /\ ~NeedsLookup(repo, force_latest_revision)
    /\ repository0' = repo
    /\ AfterGetChangesetRevisions(Returned(repo))
    /\ UNCHANGED <<entry, tool, require_tool_panel_info, force_latest_revision, repo,
                   installable_revisions, catalog_requests>>
    /\ UNCHANGED <<fvars, vvars>>

\* lines 76-85: the tool shed is asked for the ordered installable revisions
GetChangesetRevisionsLookup ==
    /\ rpc = "get_changeset_revisions"
    /\ NeedsLookup(repo, force_latest_revision)
    /\ repository0' = repo
    /\ catalog_requests' = Append(catalog_requests,
            [url |-> repo["tool_shed_url"], name |-> repo["name"], owner |-> repo["owner"]])
    /\ \E response \in CatalogResponses :
          /\ installable_revisions' = List(response)
          /\ IF ~Truthy(List(response))
                THEN /\ AfterGetChangesetRevisions(Raised("LookupError"))
                     /\ UNCHANGED repo
                ELSE LET resolved == Put(repo, "changeset_revision", Str(LatestRevision(response)))
                     IN /\ repo' = resolved
                        /\ AfterGetChangesetRevisions(Returned(resolved))
    /\ UNCHANGED <<entry, tool, require_tool_panel_info, force_latest_revision>>
    /\ UNCHANGED <<fvars, vvars>>

\* lines 50-56: the dependency flags, then the return
CompleteRepoInformationFinish ==
    /\ rpc = "finish"
    /\ LET completed ==
              Put(Put(Put(gcr_outcome.value,
                  "install_repository_dependencies",
                      Get(tool, "install_repository_dependencies", default_install_repository_dependencies)),
                  "install_resolver_dependencies",
                      Get(tool, "install_resolver_dependencies", default_install_resolver_dependencies)),
                  "install_tool_dependencies",
                      Get(tool, "install_tool_dependencies", default_install_tool_dependencies))
       IN /\ repo' = completed
          /\ outcome' = Returned(completed)
    /\ rpc' = "end"
    /\ UNCHANGED <<entry, tool, require_tool_panel_info, force_latest_revision, repository0,
                   installable_revisions, catalog_requests, gcr_outcome>>
    /\ UNCHANGED <<fvars, vvars>>

NextRepo ==
    \/ CompleteRepoInformationValidate
    \/ GetChangesetRevisionsPinned
    \/ GetChangesetRevisionsLookup
    \/ CompleteRepoInformationFinish

SpecRepo == InitRepo /\ [][NextRepo]_vars


(***************************************************************************)
(* verify_tool_keep_history                                                *)
(***************************************************************************)
tool_id == "bwa_mem"
tool_version == None

Call(service, raised) == [service |-> service, raised |-> raised]

\* util.unicodify of an exception
unicodify(e) == Str(e.v)

\* Mutant: an execution exception no longer overrides the status.
StatusWithoutError(output_exceptions, execution_exception) ==
    IF Truthy(output_exceptions) THEN "failure" ELSE "success"

\* lines 207-213: "success", overridden by "failure", overridden by "error"
Status(output_exceptions, execution_exception) ==
    IF Truthy(execution_exception) THEN "error"
    ELSE IF Truthy(output_exceptions) THEN "failure"
    ELSE "success"

\* lines 197-214: the record handed to register_job_data
JobData(inputs, stdio, output_exceptions, execution_exception, seconds) ==
    LET d0 == [tool_id |-> Str(tool_id),
               tool_version |-> tool_version,
               test_index |-> test_index,
               time_seconds |-> seconds]
        d1 == IF inputs # None THEN Put(d0, "inputs", inputs) ELSE d0
        d2 == IF stdio # None THEN Put(d1, "job", stdio) ELSE d1
        d3 == IF Truthy(output_exceptions)
                 THEN Put(d2, "output_problems",
                          List([i \in 1..Len(output_exceptions.v) |-> unicodify(output_exceptions.v[i])]))
                 ELSE d2
        d4 == IF Truthy(execution_exception)
                 THEN Put(d3, "execution_problem", unicodify(execution_exception))
                 ELSE d3
    IN Put(d4, "status", Str(Status(output_exceptions, execution_exception)))

InitVerify ==
    /\ IdleFlatten
    /\ IdleRepo
    /\ register_job_data \in BOOLEAN
    /\ expect_failure \in BOOLEAN
    /\ given_tests \in -1..MaxTests
    /\ test_index \in 0..MaxTests
    /\ test_history_given \in BOOLEAN
    /\ tool_inputs = None
    /\ job_stdio = None
    /\ job_output_exceptions = None
    /\ tool_execution_exception = None
    /\ expected_failure_occurred = FALSE
    /\ has_outputs = FALSE
    /\ begin_time = None
    /\ pending = None
    /\ calls = <<>>
    /\ registered = <<>>
    /\ voutcome = Pending
    /\ vpc = "select"

\* An exception leaves the function before the try block is entered.
RaiseInSetup(exception) ==
    /\ voutcome' = Raised(exception)
    /\ vpc' = "end"

\* lines 139-143: the tests are the argument or, when it is None or empty,
\* fetched from the interactor (fetched = -1: the request raised); then the
\* test is indexed
VerifySelectTest ==
    /\ vpc = "select"
    /\ IF given_tests > 0
          THEN /\ UNCHANGED calls
               /\ IF test_index >= given_tests
                     THEN RaiseInSetup("IndexError")
                     ELSE vpc' = "testdef" /\ UNCHANGED voutcome
          ELSE \E fetched \in -1..MaxTests :
                  IF fetched = -1
                     THEN /\ calls' = Append(calls, Call("get_tool_tests", Exc("Exception")))
                          /\ RaiseInSetup("Exception")
                     ELSE /\ calls' = Append(calls, Call("get_tool_tests", None))
                          /\ IF test_index >= fetched
                                THEN RaiseInSetup("IndexError")
                                ELSE vpc' = "testdef" /\ UNCHANGED voutcome
    /\ UNCHANGED <<register_job_data, expect_failure, given_tests, test_index, test_history_given,
                   tool_inputs, job_stdio, job_output_exceptions, tool_execution_exception,
                   expected_failure_occurred, has_outputs, begin_time, pending, registered>>
    /\ UNCHANGED <<fvars, rvars>>

\* lines 144-145: _handle_def_errors raises when the test definition is broken
VerifyHandleDefErrors ==
    /\ vpc = "testdef"
    /\ \E broken \in BOOLEAN :
          IF broken
             THEN /\ calls' = Append(calls, Call("_handle_def_errors", Exc("Exception")))
                  /\ RaiseInSetup("Exception")
             ELSE /\ calls' = Append(calls, Call("_handle_def_errors", None))
                  /\ vpc' = "history"
                  /\ UNCHANGED voutcome
    /\ UNCHANGED <<register_job_data, expect_failure, given_tests, test_index, test_history_given,
                   tool_inputs, job_stdio, job_output_exceptions, tool_execution_exception,
                   expected_failure_occurred, has_outputs, begin_time, pending, registered>>
    /\ UNCHANGED <<fvars, rvars>>

\* lines 147-148
VerifyNewHistory ==
    /\ vpc = "history"
    /\ IF test_history_given
          THEN vpc' = "locals" /\ UNCHANGED <<calls, voutcome>>
          ELSE \E failed \in BOOLEAN :
                  IF failed
                     THEN /\ calls' = Append(calls, Call("new_history", Exc("Exception")))
                          /\ RaiseInSetup("Exception")
                     ELSE /\ calls' = Append(calls, Call("new_history", None))
                          /\ vpc' = "locals"
                          /\ UNCHANGED voutcome
    /\ UNCHANGED <<register_job_data, expect_failure, given_tests, test_index, test_history_given,
                   tool_inputs, job_stdio, job_output_exceptions, tool_execution_exception,
                   expected_failure_occurred, has_outputs, begin_time, pending, registered>>
    /\ UNCHANGED <<fvars, rvars>>

\* lines 154-159
VerifyInitLocals ==
    /\ vpc = "locals"
    /\ tool_inputs' = None
    /\ job_stdio' = None
    /\ job_output_exceptions' = None
    /\ tool_execution_exception' = None
    /\ expected_failure_occurred' = FALSE
    /\ \E now \in 0..MaxTime : begin_time' = Num(now)
    /\ vpc' = "stage"
    /\ UNCHANGED <<register_job_data, expect_failure, given_tests, test_index, test_history_given,
                   has_outputs, pending, calls, registered, voutcome>>
    /\ UNCHANGED <<fvars, rvars>>

\* Mutant: the tool is run even though staging raised.
NextAfterStageAlwaysRun(raised) == "run"

\* lines 160-167: an exception of stage_data_in_history leaves the try block
NextAfterStage(raised) == IF raised = None THEN "run" ELSE "finally"

\* lines 161-166
VerifyStageData ==
    /\ vpc = "stage"
    /\ \E raised \in {None, Exc("Exception")} :
          /\ calls' = Append(calls, Call("stage_data_in_history", raised))
          /\ pending' = raised
          /\ vpc' = NextAfterStage(raised)
    /\ UNCHANGED <<register_job_data, expect_failure, given_tests, test_index, test_history_given,
                   tool_inputs, job_stdio, job_output_exceptions, tool_execution_exception,
                   expected_failure_occurred, has_outputs, begin_time, registered, voutcome>>
    /\ UNCHANGED <<fvars, rvars>>

\* lines 167-180: run_tool answers, raises RunToolException (carrying the
\* inputs, possibly None) or raises something else
VerifyRunTool ==
    /\ vpc = "run"
    /\ \/ \E outputs \in BOOLEAN :
             /\ calls' = Append(calls, Call("run_tool", None))
             /\ has_outputs' = outputs
             /\ tool_inputs' = Str("inputs")
             /\ vpc' = "check"
             /\ UNCHANGED <<tool_execution_exception, expected_failure_occurred, pending>>
       \/ \E inputs \in {None, Str("inputs")} :
             /\ calls' = Append(calls, Call("run_tool", Exc("RunToolException")))
             /\ tool_inputs' = inputs
             /\ tool_execution_exception' = Exc("RunToolException")
             /\ IF ~expect_failure
                   THEN /\ pending' = Exc("RunToolException")
                        /\ vpc' = "finally"
                        /\ UNCHANGED expected_failure_occurred
                   ELSE /\ expected_failure_occurred' = TRUE
                        /\ vpc' = "check"
                        /\ UNCHANGED pending
             /\ UNCHANGED has_outputs
       \/ /\ calls' = Append(calls, Call("run_tool", Exc("Exception")))
          /\ tool_execution_exception' = Exc("Exception")
          /\ pending' = Exc("Exception")
          /\ vpc' = "finally"
          /\ UNCHANGED <<tool_inputs, expected_failure_occurred, has_outputs>>
    /\ UNCHANGED <<register_job_data, expect_failure, given_tests, test_index, test_history_given,
                   job_stdio, job_output_exceptions, begin_time, registered, voutcome>>
    /\ UNCHANGED <<fvars, rvars>>

\* lines 182-183: verification is skipped after an expected failure; without
\* any output the assertion fails
VerifyCheckOutputs ==
    /\ vpc = "check"
    /\ IF expected_failure_occurred
          THEN vpc' = "finally" /\ UNCHANGED pending
          ELSE IF has_outputs
                  THEN vpc' = "verify" /\ UNCHANGED pending
                  ELSE vpc' = "finally" /\ pending' = Exc("AssertionError")
    /\ UNCHANGED <<register_job_data, expect_failure, given_tests, test_index, test_history_given,
                   tool_inputs, job_stdio, job_output_exceptions, tool_execution_exception,
                   expected_failure_occurred, has_outputs, begin_time, calls, registered, voutcome>>
    /\ UNCHANGED <<fvars, rvars>>

\* lines 185-193: _verify_outputs answers with the job's stdio, raises
\* JobOutputsError (carrying stdio and at least one output exception) or
\* raises something else
VerifyOutputs ==
    /\ vpc = "verify"
    /\ \/ /\ calls' = Append(calls, Call("_verify_outputs", None))
          /\ job_stdio' = Str("stdio")
          /\ UNCHANGED <<job_output_exceptions, pending>>
       \/ \E n \in 1..MaxOutputProblems :
             /\ calls' = Append(calls, Call("_verify_outputs", Exc("JobOutputsError")))
             /\ job_stdio' = Str("stdio")
             /\ job_output_exceptions' = List([i \in 1..n |-> Exc("AssertionError")])
             /\ pending' = Exc("JobOutputsError")
       \/ /\ calls' = Append(calls, Call("_verify_outputs", Exc("Exception")))
          /\ job_output_exceptions' = List(<<Exc("Exception")>>)
          /\ pending' = Exc("Exception")
          /\ UNCHANGED job_stdio
    /\ vpc' = "finally"
    /\ UNCHANGED <<register_job_data, expect_failure, given_tests, test_index, test_history_given,
                   tool_inputs, tool_execution_exception, expected_failure_occurred, has_outputs,
                   begin_time, registered, voutcome>>
    /\ UNCHANGED <<fvars, rvars>>

\* Mutant: the record is reported only when nothing was raised (the code of
\* the finally block placed after the try statement instead).
ShouldRegisterOnSuccess(callback_given, exception) == callback_given /\ exception = None

\* lines 194-195: the finally block runs whatever happened in the try block
ShouldRegister(callback_given, exception) == callback_given

\* lines 216-217: nothing follows the finally block (the deletion of the
\* history is commented out)
AfterFinally(log) == log

\* lines 194-215, then the exception in flight is re-raised or None returned
VerifyFinally ==
    /\ vpc = "finally"
    /\ IF ShouldRegister(register_job_data, pending)
          THEN \E end_time \in 0..MaxTime :
                  /\ registered' = Append(registered,
                        JobData(tool_inputs, job_stdio, job_output_exceptions,
                                tool_execution_exception, end_time - begin_time.v))
                  /\ calls' = AfterFinally(Append(calls, Call("register_job_data", None)))
          ELSE /\ calls' = AfterFinally(calls)
               /\ UNCHANGED registered
    /\ voutcome' = IF pending = None THEN Returned(None) ELSE [kind |-> "raise", value |-> pending]
    /\ vpc' = "end"
    /\ UNCHANGED <<register_job_data, expect_failure, given_tests, test_index, test_history_given,
                   tool_inputs, job_stdio, job_output_exceptions, tool_execution_exception,
                   expected_failure_occurred, has_outputs, begin_time, pending>>
    /\ UNCHANGED <<fvars, rvars>>

NextVerify ==
    \/ VerifySelectTest
    \/ VerifyHandleDefErrors
    \/ VerifyNewHistory
    \/ VerifyInitLocals
    \/ VerifyStageData
    \/ VerifyRunTool
    \/ VerifyCheckOutputs
    \/ VerifyOutputs
    \/ VerifyFinally

SpecVerify == InitVerify /\ [][NextVerify]_vars


(***************************************************************************)
(* Claims about flatten_repo_info                                          *)
(***************************************************************************)
InputInfo(i) == input0.heap[input0.list[i]]

\* The revisions the i-th input repository lists (empty when the key is
\* absent, None or an empty list).
InputRevisions(i) ==
    IF "revisions" \in DOMAIN InputInfo(i) /\ InputInfo(i)["revisions"].tag = "list"
        THEN InputInfo(i)["revisions"].v
        ELSE <<>>

EntriesFor(i) == IF Len(InputRevisions(i)) > 1 THEN Len(InputRevisions(i)) ELSE 1

\* Number of output entries that belong to the input repositories before i.
RECURSIVE Offset(_)
Offset(i) == IF i <= 1 THEN 0 ELSE Offset(i - 1) + EntriesFor(i - 1)

Entry(k) == heap[flattened_list[k]]

\* C1: when flatten_repo_info returns, the output holds, for each input
\* repository in input order, one entry per listed revision (in list order)
\* whose changeset_revision is that revision, or exactly one entry when
\* 'revisions' is absent, None or empty; every entry carries the repository's
\* other valid keys; the length is the sum of max(1, number of revisions).
C1_FlattenExpands ==
    fpc = "done" =>
        /\ Len(flattened_list) = Offset(Len(input0.list) + 1)
        /\ \A i \in 1..Len(input0.list) :
              \A j \in 1..EntriesFor(i) :
                 LET e == Entry(Offset(i) + j)
                     info == InputInfo(i)
                 IN /\ InputRevisions(i) # <<>> =>
                          /\ "changeset_revision" \in DOMAIN e
                          /\ e["changeset_revision"] = Str(InputRevisions(i)[j])
                    /\ InputRevisions(i) = <<>> =>
                          ("changeset_revision" \in DOMAIN e <=> "changeset_revision" \in DOMAIN info)
                    /\ \A k \in VALID_KEYS \ {"changeset_revision"} :
                          /\ k \in DOMAIN e <=> k \in DOMAIN info
                          /\ k \in DOMAIN e => e[k] = info[k]
                    /\ DOMAIN e \subseteq VALID_KEYS

\* C1 witness: a call returned three entries for two repositories, one with
\* two revisions and one with 'revisions' None.
C1_Witness ==
    /\ fpc = "done"
    /\ Len(input0.list) = 2
    /\ Len(InputRevisions(1)) = 2
    /\ "revisions" \in DOMAIN InputInfo(2) /\ InputInfo(2)["revisions"] = None
    /\ Len(flattened_list) = 3

Range(s) == {s[i] : i \in 1..Len(s)}

\* C8: the output entries are pairwise distinct dictionary objects, none is
\* an input dictionary, the input list and its dictionaries are unchanged,
\* writing a key of one output entry changes no other entry and no input,
\* and on return the entries of a repository with at least two distinct
\* revisions carry exactly those revisions.
C8_NoAliasing ==
    /\ \A a, b \in 1..Len(flattened_list) : a # b => flattened_list[a] # flattened_list[b]
    /\ Range(flattened_list) \cap Range(input0.list) = {}
    /\ repositories = input0.list
    /\ \A i \in 1..Len(input0.list) : heap[input0.list[i]] = InputInfo(i)
    /\ \A a \in 1..Len(flattened_list) :
          LET written == [heap EXCEPT ![flattened_list[a]] = Put(@, "changeset_revision", Str("other"))]
          IN /\ \A b \in 1..Len(flattened_list) : b # a => written[flattened_list[b]] = Entry(b)
             /\ \A i \in 1..Len(input0.list) : written[input0.list[i]] = InputInfo(i)
    /\ fpc = "done" =>
          \A i \in 1..Len(input0.list) :
             Cardinality(Range(InputRevisions(i))) >= 2 =>
                {Entry(Offset(i) + j)["changeset_revision"] : j \in 1..EntriesFor(i)}
                    = {Str(r) : r \in Range(InputRevisions(i))}

\* C8 witness: a call returned for a repository listing two distinct revisions.
C8_Witness ==
    /\ fpc = "done"
    /\ \E i \in 1..Len(input0.list) : Cardinality(Range(InputRevisions(i))) = 2
    /\ Len(flattened_list) >= 2


(***************************************************************************)
(* Claims about get_changeset_revisions and complete_repo_information      *)
(***************************************************************************)
GcrEnded == gcr_outcome.kind # "pending"

PinnedBefore == Get(repository0, "changeset_revision", None)

\* C2: whenever the repository's changeset_revision is None (or absent) or
\* force_latest_revision is true, and the catalog answered with a non-empty
\* list, get_changeset_revisions returns the repository with
\* changeset_revision set to the last element of that list and every other
\* field as it was.
C2_LatestInstallable ==
    (/\ GcrEnded
     /\ PinnedBefore = None \/ force_latest_revision
     /\ installable_revisions # None
     /\ Truthy(installable_revisions))
    => /\ gcr_outcome.kind = "return"
       /\ gcr_outcome.value["changeset_revision"]
             = Str(installable_revisions.v[Len(installable_revisions.v)])
       /\ \A k \in DOMAIN repository0 \ {"changeset_revision"} :
             k \in DOMAIN gcr_outcome.value /\ gcr_outcome.value[k] = repository0[k]

\* C2 witness: a repository pinned to r0 was forced to the latest of
\* <<r1, r2>> and came back at r2.
C2_Witness ==
    /\ GcrEnded
    /\ PinnedBefore = Str("r0")
    /\ force_latest_revision
    /\ installable_revisions = List(<<"r1", "r2">>)
    /\ gcr_outcome.kind = "return"
    /\ gcr_outcome.value["changeset_revision"] = Str("r2")

\* C3: when the repository has a non-None changeset_revision and
\* force_latest_revision is false, no catalog request is made and the
\* repository is returned with every field unchanged.
C3_NoRequestWhenPinned ==
    (GcrEnded /\ PinnedBefore # None /\ ~force_latest_revision)
    => /\ catalog_requests = <<>>
       /\ gcr_outcome = Returned(repository0)

\* C3 witness: get_changeset_revisions returned for a repository pinned to
\* r0 without force.
C3_Witness ==
    /\ GcrEnded
    /\ PinnedBefore = Str("r0")
    /\ ~force_latest_revision
    /\ gcr_outcome.kind = "return"

\* C4 (as documented): get_changeset_revisions returns the repository, or
\* None when the catalog knows no installable revision of it.
C4_ReturnsRepositoryOrNone ==
    GcrEnded =>
        IF installable_revisions = List(<<>>)
            THEN gcr_outcome = Returned(None)
            ELSE gcr_outcome = Returned(repo)

ToolHasRequired == "name" \in DOMAIN tool /\ "owner" \in DOMAIN tool

\* The condition of the claim, read off the tool entry.
NoPanelPlacement ==
    /\ require_tool_panel_info
    /\ Get(tool, "tool_panel_section_id", None) = None
    /\ Get(tool, "tool_panel_section_label", None) = None
    /\ ~Contains(tool["name"].v, "data_manager")

CarriesToolFields(r) ==
    /\ r["name"] = tool["name"]
    /\ r["owner"] = tool["owner"]
    /\ r["tool_panel_section_id"] = Get(tool, "tool_panel_section_id", None)
    /\ r["tool_panel_section_label"] = Get(tool, "tool_panel_section_label", None)

CriEnded == entry = "complete_repo_information" /\ outcome.kind # "pending"

VEnded == voutcome.kind # "pending"

RunServices == {"stage_data_in_history", "run_tool", "_verify_outputs"}

CallsOf(service) == {i \in 1..Len(calls) : calls[i].service = service}

RecordsProblem(r) ==
    /\ "execution_problem" \in DOMAIN r \/ "output_problems" \in DOMAIN r
    /\ r["status"] # Str("success")

\* C5 (as claimed): with a register_job_data callback, every exception
\* raised by stage_data_in_history, run_tool or _verify_outputs is propagated
\* to the caller and recorded in the registered record as execution_problem
\* or output_problems with a status other than 'success'.
C5_PropagatedAndRecorded ==
    (VEnded /\ register_job_data) =>
        \A i \in 1..Len(calls) :
            (calls[i].service \in RunServices /\ calls[i].raised # None) =>
                /\ voutcome = [kind |-> "raise", value |-> calls[i].raised]
                /\ Len(registered) = 1
                /\ RecordsProblem(registered[1])

RequiredKeys == {"tool_id", "tool_version", "test_index", "time_seconds", "status"}

ReportedOnce ==
    /\ Len(registered) = 1
    /\ Cardinality(CallsOf("register_job_data")) = 1
    /\ Len(calls) > 0
    /\ calls[Len(calls)].service = "register_job_data"
    /\ RequiredKeys \subseteq DOMAIN registered[1]

\* C6 (as claimed): every invocation with a register_job_data callback calls
\* it exactly once, as the last step, on every path, with a record carrying
\* tool_id, tool_version, test_index, time_seconds and status.
C6_Original ==
    (VEnded /\ register_job_data) => ReportedOnce

\* C6 (amended): that holds of every invocation that gets as far as the try
\* block (lines 154-160), whatever happens in it; an invocation whose setup
\* (lines 139-148) raises ends with the exception and no record.
C6_ReportedOnceAfterSetup ==
    (VEnded /\ register_job_data) =>
        IF begin_time # None
            THEN ReportedOnce
            ELSE /\ registered = <<>>
                 /\ CallsOf("register_job_data") = {}
                 /\ voutcome.kind = "raise"

\* C6 witness: an exception left the try block and exactly one record was
\* registered, as the last call.
C6_Witness ==
    /\ VEnded
    /\ register_job_data
    /\ pending # None
    /\ voutcome.kind = "raise"
    /\ ReportedOnce

RunToolExceptionRaised ==
    \E i \in 1..Len(calls) : calls[i] = Call("run_tool", Exc("RunToolException"))

\* C9: the status of the registered record is 'error' iff a tool execution
\* exception was recorded, 'failure' iff output exceptions were recorded and
\* no execution exception was, and 'success' otherwise; when run_tool raises
\* RunToolException and the test expects failure, the function returns
\* normally and the record has status 'error' with execution_problem set.
C9_StatusPriority ==
    /\ \A k \in 1..Len(registered) :
          LET r == registered[k]
              executed == tool_execution_exception # None
              outputs == job_output_exceptions # None /\ Len(job_output_exceptions.v) > 0
          IN /\ r["status"] = Str("error") <=> executed
             /\ r["status"] = Str("failure") <=> (outputs /\ ~executed)
             /\ r["status"] = Str("success") <=> (~outputs /\ ~executed)
             /\ "execution_problem" \in DOMAIN r <=> executed
             /\ "output_problems" \in DOMAIN r <=> outputs
    /\ (VEnded /\ expect_failure /\ RunToolExceptionRaised) =>
          /\ voutcome = Returned(None)
          /\ register_job_data =>
                /\ Len(registered) = 1
                /\ registered[1]["status"] = Str("error")
                /\ "execution_problem" \in DOMAIN registered[1]

\* C9 witness: an expected RunToolException, the function returned and the
\* record registered has status 'error'.
C9_Witness ==
    /\ VEnded
    /\ expect_failure
    /\ RunToolExceptionRaised
    /\ register_job_data
    /\ voutcome = Returned(None)
    /\ Len(registered) = 1
    /\ registered[1]["status"] = Str("error")

SetupServices == {"get_tool_tests", "_handle_def_errors", "new_history"}

\* C10: the steps run in the order stage, run, verify, register, each at most
\* once; run_tool only after stage_data_in_history returned; _verify_outputs
\* only after run_tool returned a response (never after an expected failure
\* or a run_tool exception); register_job_data last; the history is never
\* deleted.
C10_StepOrder ==
    /\ \A s \in RunServices \cup {"register_job_data"} : Cardinality(CallsOf(s)) <= 1
    /\ \A i \in CallsOf("stage_data_in_history") :
          \A j \in 1..(i - 1) : calls[j].service \in SetupServices /\ calls[j].raised = None
    /\ \A i \in CallsOf("run_tool") :
          /\ i > 1
          /\ calls[i - 1] = Call("stage_data_in_history", None)
    /\ \A i \in CallsOf("_verify_outputs") :
          /\ i > 1
          /\ calls[i - 1] = Call("run_tool", None)
          /\ ~expected_failure_occurred
          /\ tool_execution_exception = None
    /\ \A i \in CallsOf("register_job_data") : i = Len(calls)
    /\ CallsOf("delete_history") = {}

\* C10 witness: all four steps ran, in order.
C10_Witness ==
    /\ VEnded
    /\ Len(calls) >= 4
    /\ calls[Len(calls) - 3].service = "stage_data_in_history"
    /\ calls[Len(calls) - 2].service = "run_tool"
    /\ calls[Len(calls) - 1].service = "_verify_outputs"
    /\ calls[Len(calls)].service = "register_job_data"

=============================================================================
